---- MODULE Spec2Model ----
(***************************************************************************)
(* Model of haystack's MRKLAgent (nodes/prompt/mrkl_agent.py) and of the   *)
(* preview ServiceContainer (preview/components/builders/                  *)
(* service_container.py).                                                  *)
(*                                                                         *)
(* Python strings that the code slices, strips or splits are sequences of  *)
(* one-character strings, so that startswith, s[n:], strip and split are   *)
(* computed the way Python computes them.                                  *)
(***************************************************************************)
EXTENDS Integers, Sequences, FiniteSets, TLC

VARIABLES
    \* MRKLAgent: the registry and, per call of run, its locals
    tool_map, pc, query, template, pred, action, action_input, result, error, log,
    \* get_action_and_input applied on its own
    llm_output, parsed,
    \* ServiceContainer.generate_description applied on its own
    func, representation,
    \* ServiceContainer.run
    service_instance, message, outcome, invoked,
    \* MRKLAgent.load_from_yaml
    config, pipeline_name, loaded,
    \* ServiceContainer.generate_descriptions
    cls, descriptions, catalog

agentVars == <<tool_map, pc, query, template, pred, action, action_input, result, error, log>>
parseVars == <<llm_output, parsed>>
genVars == <<func, representation>>
dispatchVars == <<service_instance, message, outcome, invoked>>
loadVars == <<config, pipeline_name, loaded>>
catalogVars == <<cls, descriptions, catalog>>
vars == <<agentVars, parseVars, genVars, dispatchVars, loadVars, catalogVars>>

(***************************************************************************)
(* Bounds of the model.                                                    *)
(***************************************************************************)
\* longest run of spaces and quotes put on either side of an Action Input
MaxPad == 2
\* model calls one run may make before the model stops exploring it
MaxIter == 3
\* positional parameters (other than self) of an inspected method
MaxParams == 2

(***************************************************************************)
(* Python string primitives.                                               *)
(***************************************************************************)
NL == "\n"
SP == " "
QUOTE == "\""

\* s.startswith(p)
StartsWith(s, p) == Len(s) >= Len(p) /\ SubSeq(s, 1, Len(p)) = p

\* s[n:]
SliceFrom(s, n) == IF n >= Len(s) THEN <<>> ELSE SubSeq(s, n + 1, Len(s))

RECURSIVE LStrip(_, _)
LStrip(s, c) == IF s # <<>> /\ Head(s) = c THEN LStrip(Tail(s), c) ELSE s

RECURSIVE RStrip(_, _)
RStrip(s, c) ==
    IF s # <<>> /\ s[Len(s)] = c THEN RStrip(SubSeq(s, 1, Len(s) - 1), c) ELSE s

\* s.strip(c) for a one-character c: every leading and every trailing c goes
Strip(s, c) == RStrip(LStrip(s, c), c)

\* the index of the first c in s at or after i, 0 when there is none
RECURSIVE Find(_, _, _)
Find(s, c, i) ==
    IF i > Len(s) THEN 0 ELSE IF s[i] = c THEN i ELSE Find(s, c, i + 1)

\* s.split("\n"): the pieces between newlines, empty pieces included
RECURSIVE Split(_)
Split(s) ==
    LET i == Find(s, NL, 1)
    IN  IF i = 0 THEN <<s>>
        ELSE <<SubSeq(s, 1, i - 1)>> \o Split(SubSeq(s, i + 1, Len(s)))

\* "\n".join(lines)
RECURSIVE Join(_)
Join(lines) ==
    IF lines = <<>> THEN <<>>
    ELSE IF Len(lines) = 1 THEN lines[1]
    ELSE lines[1] \o <<NL>> \o Join(Tail(lines))

\* [p for p in lines if p]
RECURSIVE NonEmpty(_)
NonEmpty(lines) ==
    IF lines = <<>> THEN <<>>
    ELSE IF Head(lines) = <<>> THEN NonEmpty(Tail(lines))
    ELSE <<Head(lines)>> \o NonEmpty(Tail(lines))

(***************************************************************************)
(* The markers of the directive lines.                                     *)
(***************************************************************************)
FINAL_ANSWER_ACTION == <<"F","i","n","a","l"," ","A","n","s","w","e","r",":"," ">>
\* the literal "Final Answer": what startswith tests and what stands for Final
FinalAnswer == <<"F","i","n","a","l"," ","A","n","s","w","e","r">>
ActionInputMarker == <<"A","c","t","i","o","n"," ","I","n","p","u","t",":"," ">>
ActionMarker == <<"A","c","t","i","o","n",":"," ">>

(***************************************************************************)
(* MRKLAgent.get_action_and_input.  The result is what the call does:      *)
(* it returns the pair (action, action_input), or raises.  ps[-1] of an    *)
(* empty list and ps[-2] of a one-element list raise IndexError.           *)
(***************************************************************************)
Returned(a, i) == [kind |-> "return", action |-> a, action_input |-> i]
Raised(e, m) == [kind |-> "raise", exc |-> e, msg |-> m]

\* get_action_and_input cutting the last line after "Final Answer" instead of
\* after "Final Answer: "
get_action_and_input_ShortCut(text) ==
    LET ps == NonEmpty(Split(text))
        n  == Len(ps)
    IN  IF n = 0 THEN Raised("IndexError", "list index out of range")
        ELSE IF StartsWith(ps[n], FinalAnswer)
            THEN Returned(FinalAnswer, SliceFrom(ps[n], Len(FinalAnswer)))
        ELSE IF ~StartsWith(ps[n], ActionInputMarker)
            THEN Raised("ValueError", "The last line does not have an action input")
        ELSE IF n = 1 THEN Raised("IndexError", "list index out of range")
        ELSE IF ~StartsWith(ps[n - 1], ActionMarker)
            THEN Raised("ValueError", "The second to last line does not have an action")
        ELSE Returned(SliceFrom(ps[n - 1], Len(ActionMarker)),
                      Strip(Strip(SliceFrom(ps[n], Len(ActionInputMarker)), SP), QUOTE))

\* get_action_and_input stripping the quotes before the spaces
get_action_and_input_QuotesFirst(text) ==
    LET ps == NonEmpty(Split(text))
        n  == Len(ps)
    IN  IF n = 0 THEN Raised("IndexError", "list index out of range")
        ELSE IF StartsWith(ps[n], FinalAnswer)
            THEN Returned(FinalAnswer, SliceFrom(ps[n], Len(FINAL_ANSWER_ACTION)))
        ELSE IF ~StartsWith(ps[n], ActionInputMarker)
            THEN Raised("ValueError", "The last line does not have an action input")
        ELSE IF n = 1 THEN Raised("IndexError", "list index out of range")
        ELSE IF ~StartsWith(ps[n - 1], ActionMarker)
            THEN Raised("ValueError", "The second to last line does not have an action")
        ELSE Returned(SliceFrom(ps[n - 1], Len(ActionMarker)),
                      Strip(Strip(SliceFrom(ps[n], Len(ActionInputMarker)), QUOTE), SP))

get_action_and_input(text) ==
    LET ps == NonEmpty(Split(text))
        n  == Len(ps)
    IN  IF n = 0 THEN Raised("IndexError", "list index out of range")
        ELSE IF StartsWith(ps[n], FinalAnswer)
            THEN Returned(FinalAnswer, SliceFrom(ps[n], Len(FINAL_ANSWER_ACTION)))
        ELSE IF ~StartsWith(ps[n], ActionInputMarker)
            THEN Raised("ValueError", "The last line does not have an action input")
        ELSE IF n = 1 THEN Raised("IndexError", "list index out of range")
        ELSE IF ~StartsWith(ps[n - 1], ActionMarker)
            THEN Raised("ValueError", "The second to last line does not have an action")
        ELSE Returned(SliceFrom(ps[n - 1], Len(ActionMarker)),
                      Strip(Strip(SliceFrom(ps[n], Len(ActionInputMarker)), SP), QUOTE))

(***************************************************************************)
(* Model outputs handed to get_action_and_input: up to three lines, the    *)
(* last of them a marker (or none) followed by a payload padded with       *)
(* spaces and double quotes, optionally followed by a trailing newline.    *)
(***************************************************************************)
RECURSIVE SeqsUpTo(_, _)
SeqsUpTo(S, n) ==
    IF n = 0 THEN {<<>>}
    ELSE LET shorter == SeqsUpTo(S, n - 1)
         IN  shorter \cup {<<c>> \o w : c \in S, w \in shorter}

Pads == SeqsUpTo({SP, QUOTE}, MaxPad)
Cores == {<<>>, <<"4">>}
Payloads == {l \o c \o r : l \in Pads, c \in Cores, r \in Pads}

Calc == <<"C","a","l","c">>
Search == <<"S","e","e","k">>
Weather == <<"W","e","a">>

LastLines ==
    {m \o w : m \in {<<>>, FINAL_ANSWER_ACTION, FinalAnswer, ActionInputMarker,
                     <<"A","c","t","i","o","n"," ","I","n","p","u","t",":">>},
              w \in Payloads}
SecondLines ==
    { <<>>,
      ActionMarker \o Calc,
      ActionMarker \o <<SP>> \o Calc \o <<SP>>,
      ActionMarker \o FinalAnswer,
      <<"A","c","t","i","o","n",":">> \o Calc,
      <<"T","h","o","u","g","h","t",":"," ","h","m">>,
      FINAL_ANSWER_ACTION \o <<"7">> }
HeadLines ==
    { <<>>, ActionMarker \o Search, FINAL_ANSWER_ACTION \o <<"7">> }
\* a head of <<>> with headed = TRUE is a blank first line
Texts ==
    { Join((IF headed THEN <<h>> ELSE <<>>) \o <<s, l>> \o (IF trailing THEN <<<<>>>> ELSE <<>>)) :
        headed \in BOOLEAN, h \in HeadLines, s \in SecondLines, l \in LastLines,
        trailing \in BOOLEAN }

NotParsed == [kind |-> "none"]

ParseInit ==
    /\ llm_output \in Texts
    /\ parsed = NotParsed

\* one call get_action_and_input(llm_output)
Parse ==
    /\ parsed = NotParsed
    /\ parsed' = get_action_and_input(llm_output)
    /\ UNCHANGED <<llm_output, agentVars, genVars, dispatchVars, loadVars, catalogVars>>

(***************************************************************************)
(* MRKLAgent.run.  Every call of run has its own locals, indexed here by   *)
(* the call; tool_map is the one attribute of the agent that run reads.    *)
(*                                                                         *)
(* The fixed text of the prompt is kept as whole pieces; the query, being  *)
(* what the loop extends, is kept character by character.  The characters  *)
(* of the queries and of the tool outputs of this model (digits, + and ?)  *)
(* do not occur in the fixed text.                                         *)
(***************************************************************************)
RunIds == {1, 2}

prefix == <<"Answer the following questions as best as you can. You have access to the following tools:">>
tool_strings == <<"Calculator: useful for when you need to answer questions about math",
                  NL, "Search: useful for when you need to answer questions about current events. You should ask targeted questions">>
format_instructions == <<"Use the following format: ... Action: the action to take, should be one of [Calculator, Search] ... Final Answer: the final answer to the original input question">>

\* the f-string suffix and the "\n\n".join of the four parts
Template(q, agent_scratchpad) ==
    prefix \o <<NL, NL>> \o tool_strings \o <<NL, NL>> \o format_instructions \o <<NL, NL>>
        \o <<"Begin!", NL, "Question: ">> \o q \o <<NL, "Thought: ">> \o agent_scratchpad
        \o <<NL, "        ">>

Queries == { <<"2","+","2">>, <<"4","?">> }
\* the "output" field a tool pipeline may return
ToolOutputs == { <<"4">>, <<"9">> }
\* what the prompt node may answer
ModelOutputs ==
    { Join(<<ActionMarker \o Calc, ActionInputMarker \o <<QUOTE, "2", "+", "2", QUOTE>>>>),
      Join(<<ActionMarker \o Weather, ActionInputMarker \o <<"4">>>>),
      Join(<<ActionMarker \o FinalAnswer, ActionInputMarker \o <<"4">>>>),
      Join(<<<<"T","h","o","u","g","h","t",":"," ","h","m">>, FINAL_ANSWER_ACTION \o <<"4">>>>),
      ActionInputMarker \o <<"4">>,
      <<"T","h","o","u","g","h","t",":"," ","h","m">> }

\* the registries load_from_yaml can leave in the agent: pipeline names to pipelines
PipelineOf(name) == [pipeline |-> name]
Registries == { [n \in D |-> PipelineOf(n)] : D \in SUBSET {Calc, FinalAnswer} }

NoText == <<>>
ModelEntry(p, o) ==
    [op |-> "model", prompt |-> p, output |-> o, pipeline |-> PipelineOf(NoText),
     input |-> NoText, returned |-> FALSE]
ToolEntry(pl, i, o, ok) ==
    [op |-> "tool", prompt |-> NoText, output |-> o, pipeline |-> pl,
     input |-> i, returned |-> ok]

ModelCalls(r) == Cardinality({i \in 1..Len(log[r]) : log[r][i].op = "model"})

AgentInit ==
    /\ tool_map \in Registries
    /\ pc = [r \in RunIds |-> "idle"]
    /\ query = [r \in RunIds |-> NoText]
    /\ template = [r \in RunIds |-> NoText]
    /\ pred = [r \in RunIds |-> <<>>]
    /\ action = [r \in RunIds |-> NoText]
    /\ action_input = [r \in RunIds |-> NoText]
    /\ result = [r \in RunIds |-> NoText]
    /\ error = [r \in RunIds |-> "none"]
    /\ log = [r \in RunIds |-> <<>>]

\* lines 44-72: run(query) is called; the template is built from the query
Run(r, q) ==
    /\ pc[r] = "idle"
    /\ query' = [query EXCEPT ![r] = q]
    /\ template' = [template EXCEPT ![r] = Template(q, NoText)]
    /\ pc' = [pc EXCEPT ![r] = "prompt"]
    /\ UNCHANGED <<tool_map, pred, action, action_input, result, error, log>>
    /\ UNCHANGED <<parseVars, genVars, dispatchVars, loadVars, catalogVars>>

\* line 75: pred = self.prompt_node(template)
ModelCall(r) ==
    /\ pc[r] = "prompt"
    /\ ModelCalls(r) < MaxIter
    /\ \E o \in ModelOutputs :
          /\ pred' = [pred EXCEPT ![r] = <<o>>]
          /\ log' = [log EXCEPT ![r] = Append(@, ModelEntry(template[r], o))]
    /\ pc' = [pc EXCEPT ![r] = "parse"]
    /\ UNCHANGED <<tool_map, query, template, action, action_input, result, error>>
    /\ UNCHANGED <<parseVars, genVars, dispatchVars, loadVars, catalogVars>>

\* line 76: get_action_and_input(llm_output=pred[0])
Directive(r) == get_action_and_input(pred[r][1])

\* line 76, the parser raising: the exception leaves run
ParseRaises(r) ==
    /\ pc[r] = "parse"
    /\ Directive(r).kind = "raise"
    /\ pc' = [pc EXCEPT ![r] = "Failed"]
    /\ error' = [error EXCEPT ![r] = Directive(r).exc]
    /\ UNCHANGED <<tool_map, query, template, pred, action, action_input, result, log>>
    /\ UNCHANGED <<parseVars, genVars, dispatchVars, loadVars, catalogVars>>

\* the loop recording the answer without returning
ReturnFinalAnswer_NoReturn(r) ==
    /\ pc[r] = "parse"
    /\ Directive(r).kind = "return"
    /\ Directive(r).action = FinalAnswer
    /\ action' = [action EXCEPT ![r] = Directive(r).action]
    /\ action_input' = [action_input EXCEPT ![r] = Directive(r).action_input]
    /\ result' = [result EXCEPT ![r] = Directive(r).action_input]
    /\ pc' = [pc EXCEPT ![r] = "prompt"]
    /\ UNCHANGED <<tool_map, query, template, pred, error, log>>
    /\ UNCHANGED <<parseVars, genVars, dispatchVars, loadVars, catalogVars>>

\* lines 77-78: if action == "Final Answer": return action_input
ReturnFinalAnswer(r) ==
    /\ pc[r] = "parse"
    /\ Directive(r).kind = "return"
    /\ Directive(r).action = FinalAnswer
    /\ action' = [action EXCEPT ![r] = Directive(r).action]
    /\ action_input' = [action_input EXCEPT ![r] = Directive(r).action_input]
    /\ result' = [result EXCEPT ![r] = Directive(r).action_input]
    /\ pc' = [pc EXCEPT ![r] = "Done"]
    /\ UNCHANGED <<tool_map, query, template, pred, error, log>>
    /\ UNCHANGED <<parseVars, genVars, dispatchVars, loadVars, catalogVars>>

\* line 79: self.tool_map[action] raising KeyError
ToolMissing(r) ==
    /\ pc[r] = "parse"
    /\ Directive(r).kind = "return"
    /\ Directive(r).action # FinalAnswer
    /\ Directive(r).action \notin DOMAIN tool_map
    /\ action' = [action EXCEPT ![r] = Directive(r).action]
    /\ action_input' = [action_input EXCEPT ![r] = Directive(r).action_input]
    /\ pc' = [pc EXCEPT ![r] = "Failed"]
    /\ error' = [error EXCEPT ![r] = "KeyError"]
    /\ UNCHANGED <<tool_map, query, template, pred, result, log>>
    /\ UNCHANGED <<parseVars, genVars, dispatchVars, loadVars, catalogVars>>

\* query = observation: the observation replacing what was there
ExtendQuery_Replaces(q, observation) == observation
\* query += observation (line 82); the template is not rebuilt
ExtendQuery(q, observation) == q \o observation

\* the observation kept on the agent object, where every call of run sees it
ToolReturns_Shared(r) ==
    /\ pc[r] = "parse"
    /\ Directive(r).kind = "return"
    /\ Directive(r).action # FinalAnswer
    /\ Directive(r).action \in DOMAIN tool_map
    /\ action' = [action EXCEPT ![r] = Directive(r).action]
    /\ action_input' = [action_input EXCEPT ![r] = Directive(r).action_input]
    /\ \E o \in ToolOutputs :
          /\ log' = [log EXCEPT ![r] =
                        Append(@, ToolEntry(tool_map[Directive(r).action],
                                            Directive(r).action_input, o, TRUE))]
          /\ query' = [s \in RunIds |-> ExtendQuery(query[s], o)]
    /\ pc' = [pc EXCEPT ![r] = "prompt"]
    /\ UNCHANGED <<tool_map, template, pred, result, error>>
    /\ UNCHANGED <<parseVars, genVars, dispatchVars, loadVars, catalogVars>>

\* lines 79-82: the pipeline runs on action_input and returns {"output": o}
ToolReturns(r) ==
    /\ pc[r] = "parse"
    /\ Directive(r).kind = "return"
    /\ Directive(r).action # FinalAnswer
    /\ Directive(r).action \in DOMAIN tool_map
    /\ action' = [action EXCEPT ![r] = Directive(r).action]
    /\ action_input' = [action_input EXCEPT ![r] = Directive(r).action_input]
    /\ \E o \in ToolOutputs :
          /\ log' = [log EXCEPT ![r] =
                        Append(@, ToolEntry(tool_map[Directive(r).action],
                                            Directive(r).action_input, o, TRUE))]
          /\ query' = [query EXCEPT ![r] = ExtendQuery(@, o)]
    /\ pc' = [pc EXCEPT ![r] = "prompt"]
    /\ UNCHANGED <<tool_map, template, pred, result, error>>
    /\ UNCHANGED <<parseVars, genVars, dispatchVars, loadVars, catalogVars>>

\* line 80: next_pipeline.run raising: the exception leaves run
ToolRaises(r) ==
    /\ pc[r] = "parse"
    /\ Directive(r).kind = "return"
    /\ Directive(r).action # FinalAnswer
    /\ Directive(r).action \in DOMAIN tool_map
    /\ action' = [action EXCEPT ![r] = Directive(r).action]
    /\ action_input' = [action_input EXCEPT ![r] = Directive(r).action_input]
    /\ log' = [log EXCEPT ![r] =
                  Append(@, ToolEntry(tool_map[Directive(r).action],
                                      Directive(r).action_input, NoText, FALSE))]
    /\ pc' = [pc EXCEPT ![r] = "Failed"]
    /\ error' = [error EXCEPT ![r] = "PipelineError"]
    /\ UNCHANGED <<tool_map, query, template, pred, result>>
    /\ UNCHANGED <<parseVars, genVars, dispatchVars, loadVars, catalogVars>>

(***************************************************************************)
(* ServiceContainer.generate_description.                                  *)
(*                                                                         *)
(* A method is what inspect shows of it: its name, the docstring that      *)
(* inspect.getdoc returns, and the fields of inspect.getfullargspec:       *)
(* args (the positional parameters, self first when bound to a class),     *)
(* defaults (how many trailing positional parameters have one),            *)
(* kwonlyargs, kwonlydefaults and annotations.                             *)
(* A docstring is a sequence of lines: free text, ":param <name>: ..." or  *)
(* ":return: ...".                                                         *)
(***************************************************************************)
IntT == [repr |-> "<class 'int'>", members |-> <<>>, enum |-> FALSE]
ColorT == [repr |-> "<enum 'Color'>", members |-> <<"RED", "GREEN">>, enum |-> TRUE]
Types == {IntT, ColorT}

\* str.lower() on the type representations of this model
Lower(t) == IF t = "<enum 'Color'>" THEN "<enum 'color'>" ELSE t

TextLine(t) == [tag |-> "text", name |-> "", text |-> t]
ParamLine(n, t) == [tag |-> "param", name |-> n, text |-> t]
ReturnLine(t) == [tag |-> "return", name |-> "", text |-> t]

\* lines 56-67: the lines before the first one that starts with ":"
RECURSIVE extract_description(_)
extract_description(docstring) ==
    IF docstring = <<>> \/ Head(docstring).tag # "text" THEN <<>>
    ELSE <<Head(docstring).text>> \o extract_description(Tail(docstring))

\* the text of lines up to the next ":param"
RECURSIVE UpToNextParam(_)
UpToNextParam(lines) ==
    IF lines = <<>> \/ Head(lines).tag = "param" THEN <<>>
    ELSE <<Head(lines).text>> \o UpToNextParam(Tail(lines))

\* lines 95-101: the text after ":param <arg>:" up to the next ":param"
ParamDescription(docstring, arg) ==
    LET hits == {i \in 1..Len(docstring) :
                    docstring[i].tag = "param" /\ docstring[i].name = arg}
    IN  IF hits = {} THEN <<>>
        ELSE LET i == CHOOSE k \in hits : \A j \in hits : k <= j
             IN  <<docstring[i].text>> \o UpToNextParam(SubSeq(docstring, i + 1, Len(docstring)))

\* lines 92-105
ParamInfo(f, arg) ==
    [type |-> Lower(f.annotations[arg].repr),
     description |-> ParamDescription(f.doc, arg),
     enum |-> IF f.annotations[arg].enum THEN f.annotations[arg].members ELSE <<>>]

\* lines 85-87: the arguments the loop does not skip
NotSelf(args) == SelectSeq(args, LAMBDA a : a # "self")

\* lines 110-113: func_info.args[-len(func_info.defaults):]
optional_args(f) ==
    IF f.defaults > 0
    THEN SubSeq(f.args, Len(f.args) - f.defaults + 1, Len(f.args))
    ELSE <<>>

\* line 114
required(f) ==
    LET opt == {optional_args(f)[i] : i \in 1..Len(optional_args(f))}
    IN  SelectSeq(f.args, LAMBDA a : a \notin opt /\ a # "self")

\* lines 75-118: the JSON object that is serialised, or the exception raised
generate_description(f) ==
    LET params  == NotSelf(f.args)
        untyped == {i \in 1..Len(params) : params[i] \notin DOMAIN f.annotations}
    IN  IF f.doc = <<>>
        THEN Raised("ValueError", "No docstring provided for function")
        ELSE IF untyped # {}
        THEN Raised("ValueError", "No type annotation for parameter")
        ELSE [kind |-> "return",
              name |-> f.name,
              description |-> extract_description(f.doc),
              parameters |->
                [type |-> "object",
                 properties |-> [i \in 1..Len(params) |->
                                    [name |-> params[i], info |-> ParamInfo(f, params[i])]],
                 required |-> required(f)]]

NamePool == <<"a", "b", "c", "d">>
PosNames == {NamePool[i] : i \in 1..MaxParams}
KwNames == {"k"}
InjSeqs(S, n) ==
    {w \in SeqsUpTo(S, n) : \A i, j \in 1..Len(w) : i # j => w[i] # w[j]}
\* getdoc gives None or "" (both falsy, both <<>> here) or a text
Docs ==
    { <<>>,
      <<TextLine("Adds.")>>,
      <<TextLine("Adds."), ParamLine("a", "first"), ReturnLine(":return: the sum")>> }

\* the methods a class can declare, as inspect shows them
Methods ==
    { [name |-> "f", doc |-> d,
       args |-> (IF bound THEN <<"self">> ELSE <<>>) \o pos,
       defaults |-> nd,
       kwonlyargs |-> kw,
       kwonlydefaults |-> kwd,
       annotations |-> ann] :
        d \in Docs, bound \in BOOLEAN, pos \in InjSeqs(PosNames, MaxParams),
        nd \in 0..MaxParams, kw \in InjSeqs(KwNames, 1), kwd \in SUBSET KwNames,
        ann \in UNION {[D -> Types] : D \in SUBSET (PosNames \cup KwNames)} }

WellFormedMethod(f) ==
    /\ f.defaults <= Len(NotSelf(f.args))
    /\ f.kwonlydefaults \subseteq {f.kwonlyargs[i] : i \in 1..Len(f.kwonlyargs)}
    /\ DOMAIN f.annotations \subseteq
          {f.args[i] : i \in 1..Len(f.args)} \cup {f.kwonlyargs[i] : i \in 1..Len(f.kwonlyargs)}

NotGenerated == [kind |-> "none"]

GenInit ==
    /\ func \in {f \in Methods : WellFormedMethod(f)}
    /\ representation = NotGenerated

\* one call generate_description(func)
Generate ==
    /\ representation = NotGenerated
    /\ representation' = generate_description(func)
    /\ UNCHANGED <<func, agentVars, parseVars, dispatchVars, loadVars, catalogVars>>

(***************************************************************************)
(* ServiceContainer.run.                                                   *)
(*                                                                         *)
(* The service instance is the attributes getattr can find on it: a name   *)
(* maps to a method (callable, with the parameters it accepts and those    *)
(* it requires) or to a plain value.                                       *)
(***************************************************************************)
Method(params, req) == [callable |-> TRUE, params |-> params, required |-> req]
Value == [callable |-> FALSE, params |-> {}, required |-> {}]
Attributes ==
    [add |-> Method({"a", "b"}, {"a"}), _reset |-> Method({}, {}), count |-> Value]
Instances == { [n \in D |-> Attributes[n]] : D \in SUBSET DOMAIN Attributes }

None == [null |-> TRUE]
EmptyDict == [x \in {} |-> 0]
\* json.loads on the argument texts of this model
json_loads(text) ==
    CASE text = "null" -> None
      [] text = "{}" -> EmptyDict
      [] text = "{\"a\": 1}" -> [x \in {"a"} |-> 1]
      [] text = "{\"a\": 1, \"b\": 2}" -> [x \in {"a", "b"} |-> IF x = "a" THEN 1 ELSE 2]
      [] text = "{\"z\": 1}" -> [x \in {"z"} |-> 1]
ArgumentTexts == {"null", "{}", "{\"a\": 1}", "{\"a\": 1, \"b\": 2}", "{\"z\": 1}"}
Messages == [name : {"add", "_reset", "count", "fly"}, arguments : ArgumentTexts]

\* line 42: dict(function_args) if function_args else {}
invocation_args(function_args) ==
    IF function_args = None \/ function_args = EmptyDict THEN EmptyDict ELSE function_args

\* method(**kwargs): the value it returns, or the TypeError of a call that
\* names a parameter the method has not or omits one it requires
CallMethod(name, m, kwargs) ==
    IF DOMAIN kwargs \subseteq m.params /\ m.required \subseteq DOMAIN kwargs
    THEN [kind |-> "return", value |-> <<name, kwargs>>]
    ELSE Raised("TypeError", "unexpected or missing argument")

\* line 39-40: getattr(self.service_instance, function_name, None) is a callable
Found(inst, function_name) ==
    function_name \in DOMAIN inst /\ inst[function_name].callable

NotCalled == [kind |-> "none"]

DispatchInit ==
    /\ service_instance \in Instances
    /\ message \in Messages
    /\ outcome = NotCalled
    /\ invoked = <<>>

\* lines 35-43: the method is found and called with the decoded arguments
DispatchInvoke ==
    /\ outcome = NotCalled
    /\ Found(service_instance, message.name)
    /\ LET kwargs == invocation_args(json_loads(message.arguments))
       IN  /\ invoked' = Append(invoked, [name |-> message.name, kwargs |-> kwargs])
           /\ outcome' = CallMethod(message.name, service_instance[message.name], kwargs)
    /\ UNCHANGED <<service_instance, message, agentVars, parseVars, genVars, loadVars, catalogVars>>

\* lines 35-45: nothing callable under that name
DispatchUnknown ==
    /\ outcome = NotCalled
    /\ ~Found(service_instance, message.name)
    /\ outcome' = Raised("ValueError", "is not a method of")
    /\ UNCHANGED <<service_instance, message, invoked, agentVars, parseVars, genVars, loadVars, catalogVars>>

(***************************************************************************)
(* MRKLAgent.load_from_yaml.                                               *)
(*                                                                         *)
(* The configuration read from the YAML file is its list of pipelines,     *)
(* each with its name and the number of MRKLAgent nodes among its          *)
(* components, and the pipeline_names parameter the file gives to the      *)
(* MRKLAgent component.  pipeline_name is the argument of the call; it     *)
(* defaults to None.                                                       *)
(***************************************************************************)
\* agent nodes a declared pipeline may hold
MaxAgents == 2

AgentPipeline == <<"m","r","k","l">>
PipelineNames == {Calc, Search, AgentPipeline}
\* pipeline_name = None: no string equals it
NoPipelineName == <<>>

Configs ==
    { [pipelines |-> [i \in 1..Len(names) |-> [name |-> names[i], agents |-> counts[i]]],
       pipeline_names |-> listed] :
         names \in InjSeqs(PipelineNames, Cardinality(PipelineNames)) \ {<<>>},
         counts \in [1..Cardinality(PipelineNames) -> 0..MaxAgents],
         listed \in SUBSET PipelineNames }

\* get_pipeline_definition, as the docstring of load_from_yaml describes it:
\* the position of the pipeline called name, or of the only pipeline when no
\* name is given; 0 when there is no such pipeline or the choice is ambiguous
get_pipeline_definition(cfg, name) ==
    LET hits == {i \in 1..Len(cfg.pipelines) : cfg.pipelines[i].name = name}
    IN  IF name = NoPipelineName
        THEN IF Len(cfg.pipelines) = 1 THEN 1 ELSE 0
        ELSE IF hits = {} THEN 0 ELSE CHOOSE i \in hits : TRUE

\* line 110: [p["name"] for p in config["pipelines"] if p["name"] != pipeline_name]
tool_pipeline_names(cfg, name) ==
    SelectSeq([i \in 1..Len(cfg.pipelines) |-> cfg.pipelines[i].name],
              LAMBDA n : n # name)

\* lines 140-142: the zip of names and loaded pipelines, filtered by pipeline_names
FilteredToolMap(names, listed) ==
    [pn \in {names[i] : i \in 1..Len(names)} \cap listed |-> PipelineOf(pn)]

Loaded(agent_pipeline, tm) ==
    [kind |-> "return", pipeline |-> agent_pipeline, tool_map |-> tm]

\* load_from_yaml taking the first agent node whatever their number
load_from_yaml_TakesFirst(cfg, name) ==
    LET k == get_pipeline_definition(cfg, name)
    IN  IF k = 0
        THEN Raised("PipelineConfigError", "no such pipeline")
        ELSE IF cfg.pipelines[k].agents = 0
        THEN Raised("PipelineConfigError", "contains no MRKLAgent node")
        ELSE Loaded(cfg.pipelines[k].name,
                    FilteredToolMap(tool_pipeline_names(cfg, name), cfg.pipeline_names))

\* lines 109-143: the agent node returned with its tool_map, or the error raised
load_from_yaml(cfg, name) ==
    LET k == get_pipeline_definition(cfg, name)
    IN  IF k = 0
        THEN Raised("PipelineConfigError", "no such pipeline")
        ELSE IF cfg.pipelines[k].agents = 0
        THEN Raised("PipelineConfigError", "contains no MRKLAgent node")
        ELSE IF cfg.pipelines[k].agents > 1
        THEN Raised("PipelineConfigError", "contains more than one MRKLAgent node")
        ELSE Loaded(cfg.pipelines[k].name,
                    FilteredToolMap(tool_pipeline_names(cfg, name), cfg.pipeline_names))

NotLoaded == [kind |-> "none"]

LoadInit ==
    /\ config \in Configs
    /\ pipeline_name \in PipelineNames \cup {NoPipelineName}
    /\ loaded = NotLoaded

\* lines 109-143, no exception: the agent's tool_map is assigned
LoadReturns ==
    /\ loaded = NotLoaded
    /\ load_from_yaml(config, pipeline_name).kind = "return"
    /\ loaded' = load_from_yaml(config, pipeline_name)
    /\ tool_map' = load_from_yaml(config, pipeline_name).tool_map
    /\ UNCHANGED <<pc, query, template, pred, action, action_input, result, error, log>>
    /\ UNCHANGED <<config, pipeline_name, parseVars, genVars, dispatchVars, catalogVars>>

\* lines 109-134: PipelineConfigError leaves load_from_yaml
LoadRaises ==
    /\ loaded = NotLoaded
    /\ load_from_yaml(config, pipeline_name).kind = "raise"
    /\ loaded' = load_from_yaml(config, pipeline_name)
    /\ UNCHANGED <<config, pipeline_name, agentVars, parseVars, genVars, dispatchVars, catalogVars>>

(***************************************************************************)
(* ServiceContainer.generate_descriptions.                                 *)
(*                                                                         *)
(* cls is what inspect.getmembers(cls, predicate=inspect.isfunction)       *)
(* gives for the class: its function members, the constructor and the      *)
(* underscore-prefixed ones included, sorted by name.  descriptions is the *)
(* local list of the loop; catalog is what the call gives its caller.      *)
(* generate_description is modelled as giving the description itself, so   *)
(* json.loads of its json.dumps text is that description.                  *)
(***************************************************************************)
\* in the order getmembers sorts them
MemberNames == <<"__init__", "_reset", "add", "mul">>

\* a method with a docstring and an annotated parameter; one without
\* docstring; one whose parameter has no annotation
Documented(n) ==
    [name |-> n, doc |-> <<TextLine("Adds.")>>, args |-> <<"self", "a">>, defaults |-> 0,
     kwonlyargs |-> <<>>, kwonlydefaults |-> {}, annotations |-> [x \in {"a"} |-> IntT]]
Undocumented(n) == [Documented(n) EXCEPT !.doc = <<>>]
Untyped(n) == [Documented(n) EXCEPT !.annotations = [x \in {} |-> IntT]]
\* inspect.getdoc finds the inherited docstring of a constructor that has none
MemberShapes(n) ==
    IF n = "__init__" THEN {Documented(n), Untyped(n)}
    ELSE {Documented(n), Undocumented(n), Untyped(n)}

Classes ==
    { SelectSeq(all, LAMBDA m : m.name \in chosen) :
         chosen \in SUBSET {MemberNames[i] : i \in 1..Len(MemberNames)},
         all \in {w \in [1..Len(MemberNames) -> UNION {MemberShapes(MemberNames[i]) : i \in 1..Len(MemberNames)}] :
                     \A i \in 1..Len(MemberNames) : w[i].name = MemberNames[i]} }

NoCatalog == [kind |-> "none"]

CatalogInit ==
    /\ cls \in Classes
    /\ descriptions = <<>>
    /\ catalog = NoCatalog

\* line 127: the member the loop is at
NextMember == cls[Len(descriptions) + 1]

\* lines 127-129: one iteration, generate_description returning
CatalogAppend ==
    /\ catalog = NoCatalog
    /\ Len(descriptions) < Len(cls)
    /\ generate_description(NextMember).kind = "return"
    /\ descriptions' = Append(descriptions, generate_description(NextMember))
    /\ UNCHANGED <<cls, catalog, agentVars, parseVars, genVars, dispatchVars, loadVars>>

\* the loop giving its caller what it has when a method cannot be described
CatalogRaises_ReturnsPartial ==
    /\ catalog = NoCatalog
    /\ Len(descriptions) < Len(cls)
    /\ generate_description(NextMember).kind = "raise"
    /\ catalog' = [kind |-> "return", descriptions |-> descriptions]
    /\ UNCHANGED <<cls, descriptions, agentVars, parseVars, genVars, dispatchVars, loadVars>>

\* line 128: generate_description raising: the exception leaves
\* generate_descriptions, the local list is lost
CatalogRaises ==
    /\ catalog = NoCatalog
    /\ Len(descriptions) < Len(cls)
    /\ generate_description(NextMember).kind = "raise"
    /\ catalog' = generate_description(NextMember)
    /\ UNCHANGED <<cls, descriptions, agentVars, parseVars, genVars, dispatchVars, loadVars>>

\* line 130: return descriptions
CatalogReturns ==
    /\ catalog = NoCatalog
    /\ Len(descriptions) = Len(cls)
    /\ catalog' = [kind |-> "return", descriptions |-> descriptions]
    /\ UNCHANGED <<cls, descriptions, agentVars, parseVars, genVars, dispatchVars, loadVars>>

(***************************************************************************)
(* Specifications.  Each subsystem is explored on its own; the variables   *)
(* of the others rest at their initial values.                             *)
(***************************************************************************)
ParseIdle == llm_output = NoText /\ parsed = NotParsed
GenIdle ==
    /\ func = [name |-> "f", doc |-> <<>>, args |-> <<>>, defaults |-> 0,
               kwonlyargs |-> <<>>, kwonlydefaults |-> {}, annotations |-> EmptyDict]
    /\ representation = NotGenerated
DispatchIdle ==
    /\ service_instance = EmptyDict
    /\ message = [name |-> "fly", arguments |-> "null"]
    /\ outcome = NotCalled
    /\ invoked = <<>>
LoadIdle ==
    /\ config = [pipelines |-> <<>>, pipeline_names |-> {}]
    /\ pipeline_name = NoPipelineName
    /\ loaded = NotLoaded
CatalogIdle ==
    /\ cls = <<>>
    /\ descriptions = <<>>
    /\ catalog = NoCatalog
AgentIdle ==
    /\ tool_map = EmptyDict
    /\ pc = [r \in RunIds |-> "idle"]
    /\ query = [r \in RunIds |-> NoText]
    /\ template = [r \in RunIds |-> NoText]
    /\ pred = [r \in RunIds |-> <<>>]
    /\ action = [r \in RunIds |-> NoText]
    /\ action_input = [r \in RunIds |-> NoText]
    /\ result = [r \in RunIds |-> NoText]
    /\ error = [r \in RunIds |-> "none"]
    /\ log = [r \in RunIds |-> <<>>]

\* one call of run on an agent whose registry is loaded
Init == AgentInit /\ ParseIdle /\ GenIdle /\ DispatchIdle /\ LoadIdle /\ CatalogIdle
Next ==
    \/ \E q \in Queries : Run(1, q)
    \/ ModelCall(1)
    \/ ParseRaises(1)
    \/ ReturnFinalAnswer(1)
    \/ ToolMissing(1)
    \/ ToolReturns(1)
    \/ ToolRaises(1)
Spec == Init /\ [][Next]_vars

\* get_action_and_input on every text of Texts
ParseSpecInit == AgentIdle /\ ParseInit /\ GenIdle /\ DispatchIdle /\ LoadIdle /\ CatalogIdle
ParseNext == Parse
ParseSpec == ParseSpecInit /\ [][ParseNext]_vars

\* generate_description on every method of Methods
GenSpecInit == AgentIdle /\ ParseIdle /\ GenInit /\ DispatchIdle /\ LoadIdle /\ CatalogIdle
GenNext == Generate
GenSpec == GenSpecInit /\ [][GenNext]_vars

\* ServiceContainer.run on every instance and message
DispatchSpecInit == AgentIdle /\ ParseIdle /\ GenIdle /\ DispatchInit /\ LoadIdle /\ CatalogIdle
DispatchNext == DispatchInvoke \/ DispatchUnknown
DispatchSpec == DispatchSpecInit /\ [][DispatchNext]_vars

\* two calls of run on the same agent, their steps interleaved in every order
\* (one after the other included)
\* the two calls are made with distinct queries
QueryOfRun(r) == IF r = 1 THEN <<"2", "+", "2">> ELSE <<"4", "?">>
TwoRunNext ==
    \E r \in RunIds :
        \/ Run(r, QueryOfRun(r))
        \/ ModelCall(r)
        \/ ParseRaises(r)
        \/ ReturnFinalAnswer(r)
        \/ ToolMissing(r)
        \/ ToolReturns(r)
        \/ ToolRaises(r)
TwoRunSpec == Init /\ [][TwoRunNext]_vars

\* load_from_yaml on every configuration of Configs, with and without a pipeline name
LoadSpecInit == AgentIdle /\ ParseIdle /\ GenIdle /\ DispatchIdle /\ LoadInit /\ CatalogIdle
LoadNext == LoadReturns \/ LoadRaises
LoadSpec == LoadSpecInit /\ [][LoadNext]_vars

\* generate_descriptions on every class of Classes
CatalogSpecInit == AgentIdle /\ ParseIdle /\ GenIdle /\ DispatchIdle /\ LoadIdle /\ CatalogInit
CatalogNext == CatalogAppend \/ CatalogRaises \/ CatalogReturns
CatalogSpec == CatalogSpecInit /\ [][CatalogNext]_vars

(***************************************************************************)
(* The lines of a text as the specification speaks of them: the last       *)
(* non-empty line is the stretch without a newline that ends at the last   *)
(* character that is not a newline; the second-to-last non-empty line is   *)
(* the last non-empty line of what precedes it.                            *)
(***************************************************************************)
\* the position of the last character at or before j that is not a newline, or 0
RECURSIVE LastEndFrom(_, _)
LastEndFrom(text, j) ==
    IF j = 0 \/ text[j] # NL THEN j ELSE LastEndFrom(text, j - 1)
\* the position where the line holding position i starts
RECURSIVE LineStartFrom(_, _)
LineStartFrom(text, i) ==
    IF i = 1 \/ text[i - 1] = NL THEN i ELSE LineStartFrom(text, i - 1)
LastEnd(text) == LastEndFrom(text, Len(text))
HasLine(text) == LastEnd(text) > 0
LastStart(text) == LineStartFrom(text, LastEnd(text))
LastLine(text) == LET e == LastEnd(text) IN SubSeq(text, LineStartFrom(text, e), e)
BeforeLastLine(text) == SubSeq(text, 1, LastStart(text) - 1)
HasSecondLine(text) == HasLine(text) /\ HasLine(BeforeLastLine(text))
SecondLine(text) == LastLine(BeforeLastLine(text))

\* the text ends in the line pair  Action: A / Action Input: raw
IsActText(text) ==
    /\ HasSecondLine(text)
    /\ StartsWith(LastLine(text), ActionInputMarker)
    /\ StartsWith(SecondLine(text), ActionMarker)
\* the text ends in a line  Final Answer: X
IsFinalText(text) == HasLine(text) /\ StartsWith(LastLine(text), FINAL_ANSWER_ACTION)

\* out is s without a run of c at its start and a run of c at its end, as long as they go
StrippedOf(s, c, out) ==
    \E i \in 0..Len(s) : \E j \in i..Len(s) :
        /\ out = SubSeq(s, i + 1, j)
        /\ \A k \in 1..i : s[k] = c
        /\ \A k \in (j + 1)..Len(s) : s[k] = c
        /\ (out = <<>> \/ (out[1] # c /\ out[Len(out)] # c))
SubStrings(s) == {SubSeq(s, i + 1, j) : i \in 0..Len(s), j \in 0..Len(s)}

\* s without one pair of surrounding double quotes, when it has one at both ends
OneQuoteLayerOff(s) ==
    IF Len(s) >= 2 /\ s[1] = QUOTE /\ s[Len(s)] = QUOTE THEN SubSeq(s, 2, Len(s) - 1) ELSE s

(***************************************************************************)
(* Claims about get_action_and_input, under ParseSpec.                     *)
(***************************************************************************)

\* C5: for every text whose last non-empty line starts with the marker
\* "Final Answer: ", the parser returns Final, and its answer is the rest of
\* that line after the marker, whatever the lines before it are.
C5_FinalAnswerRemainder ==
    (parsed # NotParsed /\ IsFinalText(llm_output)) =>
        /\ parsed.kind = "return"
        /\ parsed.action = FinalAnswer
        /\ LastLine(llm_output) = FINAL_ANSWER_ACTION \o parsed.action_input

\* C5 witness: a text with an Action line before a last line "Final Answer: 4"
\* has been parsed to the answer 4.
C5_Witness ==
    /\ parsed # NotParsed
    /\ IsFinalText(llm_output)
    /\ HasSecondLine(llm_output)
    /\ StartsWith(SecondLine(llm_output), ActionMarker)
    /\ parsed.kind = "return"
    /\ parsed.action_input = <<"4">>

\* C6 as stated: for every text whose last two non-empty lines are
\* "Action: A" and "Action Input: <raw>", the parser returns Act(A, B) with A
\* verbatim and B equal to <raw> trimmed of surrounding spaces and then of
\* exactly one layer of double quotes, removed only when both ends have one.
C6_OneQuoteLayer ==
    (parsed # NotParsed /\ IsActText(llm_output)) =>
        LET raw == SliceFrom(LastLine(llm_output), Len(ActionInputMarker))
        IN  /\ parsed.kind = "return"
            /\ ActionMarker \o parsed.action = SecondLine(llm_output)
            /\ \E mid \in SubStrings(raw) :
                  /\ StrippedOf(raw, SP, mid)
                  /\ parsed.action_input = OneQuoteLayerOff(mid)

\* C6 amended: for every text whose last two non-empty lines are "Action: A"
\* and "Action Input: <raw>", the parser returns Act(A, B) with A verbatim and
\* B equal to <raw> trimmed of surrounding spaces and then of every leading
\* and every trailing double quote, on each end independently of the other.
C6_AllQuotesStripped ==
    (parsed # NotParsed /\ IsActText(llm_output)) =>
        LET raw == SliceFrom(LastLine(llm_output), Len(ActionInputMarker))
        IN  /\ parsed.kind = "return"
            /\ ActionMarker \o parsed.action = SecondLine(llm_output)
            /\ \E mid \in SubStrings(raw) :
                  /\ StrippedOf(raw, SP, mid)
                  /\ StrippedOf(mid, QUOTE, parsed.action_input)

\* C6 witness: a three-line text whose action is " Calc " (spaces kept) and
\* whose input has two quotes before the 4 and one quote after it.
C6_Witness ==
    /\ parsed # NotParsed
    /\ IsActText(llm_output)
    /\ HasLine(BeforeLastLine(BeforeLastLine(llm_output)))
    /\ parsed.kind = "return"
    /\ parsed.action = <<SP>> \o Calc \o <<SP>>
    /\ LastLine(llm_output) = ActionInputMarker \o <<QUOTE, QUOTE, "4", QUOTE>>
    /\ parsed.action_input = <<"4">>

\* C7: for every text whose last non-empty line is not a Final Answer line
\* (here: does not start with "Final Answer"), the parser raises the
\* malformed-directive error (ValueError) unless the last non-empty line
\* starts with "Action Input: " and the one before it with "Action: "; a text
\* whose only non-empty line is "Action Input: Y" is such a text.
C7_MalformedDirective ==
    (/\ parsed # NotParsed
     /\ HasLine(llm_output)
     /\ ~StartsWith(LastLine(llm_output), FinalAnswer)
     /\ ~IsActText(llm_output)) =>
        (parsed.kind = "raise" /\ parsed.exc = "ValueError")

(***************************************************************************)
(* Claims about MRKLAgent.run, under Spec.  log[r] holds, in order, the    *)
(* model calls of run r (with the prompt passed and the text returned)     *)
(* and its pipeline invocations (with the input passed and the output).    *)
(***************************************************************************)
\* sub occurs in s
Contains(s, sub) ==
    \E k \in 0..(Len(s) - Len(sub)) : SubSeq(s, k + 1, k + Len(sub)) = sub

\* run r has finished handling the model output it logged at position i
Handled(r, i) == i < Len(log[r]) \/ pc[r] # "parse"

\* C1: after every Act step whose tool returned observation O, the prompt
\* passed to the next model call contains O, and it is not the prompt of the
\* model call before that step.
C1_NextPromptHasObservation ==
    \A r \in RunIds : \A i \in 2..(Len(log[r]) - 1) :
        (log[r][i].op = "tool" /\ log[r][i].returned /\ log[r][i + 1].op = "model") =>
            /\ Contains(log[r][i + 1].prompt, log[r][i].output)
            /\ log[r][i + 1].prompt # log[r][i - 1].prompt

\* C2: when the model output ends in a line "Final Answer: X", the step that
\* handles it makes run return exactly X and be Done, without calling a tool;
\* and from Done, run makes no further model call or tool invocation and its
\* result stays.
C2_FinalReturnsAndDoneIsTerminal ==
    [][\A r \in RunIds :
          /\ (pc[r] = "parse" /\ pc'[r] # "parse" /\ IsFinalText(pred[r][1])) =>
                /\ pc'[r] = "Done"
                /\ FINAL_ANSWER_ACTION \o result'[r] = LastLine(pred[r][1])
                /\ log'[r] = log[r]
          /\ pc[r] = "Done" =>
                /\ pc'[r] = "Done"
                /\ result'[r] = result[r]
                /\ log'[r] = log[r]]_vars

\* C2 witness: run 1 is Done with the answer 4 after a tool invocation and a
\* second model call that ended in "Final Answer: 4".
C2_Witness ==
    /\ pc[1] = "Done"
    /\ result[1] = <<"4">>
    /\ Len(log[1]) = 3
    /\ log[1][2].op = "tool"
    /\ IsFinalText(log[1][3].output)

\* C3: for every model output that ends in the line pair Action: A /
\* Action Input: B with A in the registry, what run does next is one
\* invocation of the registry entry of A with the parsed B as input, and
\* only then, the invocation having returned, the next model call.
C3_RegisteredToolInvokedOnce ==
    \A r \in RunIds : \A i \in 1..Len(log[r]) :
        (/\ log[r][i].op = "model"
         /\ IsActText(log[r][i].output)
         /\ SliceFrom(SecondLine(log[r][i].output), Len(ActionMarker)) \in DOMAIN tool_map
         /\ Handled(r, i)) =>
            /\ i + 1 <= Len(log[r])
            /\ log[r][i + 1].op = "tool"
            /\ log[r][i + 1].pipeline =
                  tool_map[SliceFrom(SecondLine(log[r][i].output), Len(ActionMarker))]
            /\ log[r][i + 1].input = get_action_and_input(log[r][i].output).action_input
            /\ (i + 2 <= Len(log[r]) => log[r][i + 2].op = "model" /\ log[r][i + 1].returned)

\* C4: when a model output ends in the line pair Action: A / Action Input: B
\* and the registry has no entry for A, run fails with the unknown-tool error
\* (KeyError) with no tool invocation and no further model call.
C4_UnknownToolFails ==
    \A r \in RunIds : \A i \in 1..Len(log[r]) :
        (/\ log[r][i].op = "model"
         /\ IsActText(log[r][i].output)
         /\ SliceFrom(SecondLine(log[r][i].output), Len(ActionMarker)) \notin DOMAIN tool_map
         /\ Handled(r, i)) =>
            /\ i = Len(log[r])
            /\ pc[r] = "Failed"
            /\ error[r] = "KeyError"

(***************************************************************************)
(* Claims about ServiceContainer.generate_description, under GenSpec.      *)
(***************************************************************************)
\* the declared parameters of a method other than its receiver, in order
DeclaredParams(f) ==
    (IF f.args # <<>> /\ f.args[1] = "self" THEN Tail(f.args) ELSE f.args) \o f.kwonlyargs
\* the declared parameter has a default value
HasDefault(f, a) ==
    \/ \E i \in 1..Len(f.args) : f.args[i] = a /\ i > Len(f.args) - f.defaults
    \/ a \in f.kwonlydefaults

\* C8: the required list of a generated descriptor is exactly the declared
\* parameters without a default value, in declaration order, the receiver
\* excluded; and properties has an entry for every declared parameter other
\* than the receiver.
C8_RequiredAndProperties ==
    representation.kind = "return" =>
        /\ representation.parameters.required =
              SelectSeq(DeclaredParams(func), LAMBDA a : ~HasDefault(func, a))
        /\ {representation.parameters.properties[i].name :
               i \in 1..Len(representation.parameters.properties)}
              = {DeclaredParams(func)[i] : i \in 1..Len(DeclaredParams(func))}

\* C10: generate_description fails for want of documentation on every method
\* without documentation text, fails for want of a type annotation on every
\* documented method with a declared non-receiver parameter that has no
\* declared type, and never emits a ParamInfo without a type.
C10_MissingDocOrAnnotationFails ==
    representation # NotGenerated =>
        /\ func.doc = <<>> =>
              representation = Raised("ValueError", "No docstring provided for function")
        /\ (/\ func.doc # <<>>
            /\ \E i \in 1..Len(DeclaredParams(func)) :
                  DeclaredParams(func)[i] \notin DOMAIN func.annotations) =>
              representation = Raised("ValueError", "No type annotation for parameter")
        /\ representation.kind = "return" =>
              \A i \in 1..Len(representation.parameters.properties) :
                  representation.parameters.properties[i].info.type # ""

(***************************************************************************)
(* Claims about ServiceContainer.run, under DispatchSpec.                  *)
(***************************************************************************)
\* a public name is one that does not start with an underscore
Public(name) == name \notin {"_reset"}

\* C9: the dispatcher fails with the unknown-action error (ValueError) if and
\* only if the service instance has no public callable named as the message
\* asks; otherwise it invokes exactly that callable, once, with the decoded
\* arguments passed by name, and what the callable does is the outcome.
C9_UnknownActionIffNoPublicCallable ==
    outcome # NotCalled =>
        LET name == message.name
            public_callable ==
                /\ name \in DOMAIN service_instance
                /\ service_instance[name].callable
                /\ Public(name)
            decoded == json_loads(message.arguments)
            kwargs == IF decoded = None THEN EmptyDict ELSE decoded
        IN  /\ outcome = Raised("ValueError", "is not a method of") <=> ~public_callable
            /\ public_callable =>
                  /\ invoked = <<[name |-> name, kwargs |-> kwargs]>>
                  /\ outcome = CallMethod(name, service_instance[name], kwargs)
            /\ ~public_callable => invoked = <<>>

(***************************************************************************)
(* Claims about load_from_yaml.                                            *)
(***************************************************************************)
Declared(cfg) == {cfg.pipelines[i].name : i \in 1..Len(cfg.pipelines)}

\* C11: after load_from_yaml succeeds, the registry holds exactly the declared
\* pipelines other than the agent's own whose name is in pipeline_names, each
\* bound to its pipeline; the agent's own pipeline is not a tool
C11_RegistryIsListedToolPipelines ==
    loaded.kind = "return" =>
        /\ DOMAIN tool_map = (Declared(config) \ {loaded.pipeline}) \cap config.pipeline_names
        /\ \A pn \in DOMAIN tool_map : tool_map[pn] = PipelineOf(pn)

\* the pipeline load_from_yaml loads as the agent's: 0 when none is chosen
TargetOf(cfg, name) ==
    IF name = NoPipelineName
    THEN IF Len(cfg.pipelines) = 1 THEN 1 ELSE 0
    ELSE IF \E i \in 1..Len(cfg.pipelines) : cfg.pipelines[i].name = name
         THEN CHOOSE i \in 1..Len(cfg.pipelines) : cfg.pipelines[i].name = name
         ELSE 0

\* C12: when the loaded pipeline holds no agent node or more than one,
\* load_from_yaml raises PipelineConfigError and assigns no registry; when it
\* holds exactly one, load_from_yaml returns that pipeline's agent node
C12_ExactlyOneAgentNode ==
    LET k == TargetOf(config, pipeline_name)
    IN  (loaded # NotLoaded /\ k # 0) =>
            IF config.pipelines[k].agents = 1
            THEN loaded.kind = "return" /\ loaded.pipeline = config.pipelines[k].name
            ELSE /\ loaded.kind = "raise"
                 /\ loaded.exc = "PipelineConfigError"
                 /\ tool_map = EmptyDict

\* two agent nodes, no pipeline name given, and load_from_yaml has raised
C12_Witness ==
    /\ pipeline_name = NoPipelineName
    /\ Len(config.pipelines) = 1
    /\ config.pipelines[1].agents = 2
    /\ loaded.kind = "raise"


(***************************************************************************)
(* Further claims about MRKLAgent.run.                                     *)
(***************************************************************************)
\* C13: run is Done only after a model output whose last non-empty line
\* starts with Final Answer; an output ending in the line pair Action: A /
\* Action Input: B never makes run return, whatever A is
C13_DoneOnlyOnFinalAnswerLine ==
    \A r \in RunIds :
        pc[r] = "Done" =>
            /\ log[r] # <<>>
            /\ log[r][Len(log[r])].op = "model"
            /\ HasLine(log[r][Len(log[r])].output)
            /\ StartsWith(LastLine(log[r][Len(log[r])].output), FinalAnswer)
            /\ ~IsActText(log[r][Len(log[r])].output)

IsPrefix(a, b) == Len(a) <= Len(b) /\ SubSeq(b, 1, Len(a)) = a
\* what b has after its prefix a
Added(a, b) == SubSeq(b, Len(a) + 1, Len(b))

ActionNamed(text) == SliceFrom(SecondLine(text), Len(ActionMarker))

\* C15: a model output that is neither a final answer nor a well-formed Act,
\* an Act naming a tool the registry does not hold, and a tool invocation
\* that fails are each the last thing the run does, and the run has Failed;
\* a run that has Failed has no result, and a run that is Done has the text
\* after "Final Answer: " of its last model output
C15_FailuresEndTheRun ==
    \A r \in RunIds :
        /\ \A i \in 1..Len(log[r]) :
              /\ (/\ log[r][i].op = "model"
                  /\ Handled(r, i)
                  /\ \/ ~IsActText(log[r][i].output) /\ ~IsFinalText(log[r][i].output)
                     \/ /\ IsActText(log[r][i].output)
                        /\ ActionNamed(log[r][i].output) \notin DOMAIN tool_map) =>
                    (i = Len(log[r]) /\ pc[r] = "Failed" /\ error[r] # "none")
              /\ (log[r][i].op = "tool" /\ ~log[r][i].returned) =>
                    (i = Len(log[r]) /\ pc[r] = "Failed" /\ error[r] # "none")
        /\ pc[r] = "Failed" => result[r] = NoText
        /\ pc[r] = "Done" =>
              /\ log[r] # <<>>
              /\ IsFinalText(log[r][Len(log[r])].output)
              /\ FINAL_ANSWER_ACTION \o result[r] = LastLine(log[r][Len(log[r])].output)

\* entry i of the log of run r is an Act naming a registered tool, followed
\* by the invocation of that tool, which returned
ActStepAt(r, i) ==
    /\ log[r][i].op = "model"
    /\ IsActText(log[r][i].output)
    /\ ~IsFinalText(log[r][i].output)
    /\ ActionNamed(log[r][i].output) \in DOMAIN tool_map
    /\ i + 1 <= Len(log[r])
    /\ log[r][i + 1].op = "tool"
    /\ log[r][i + 1].returned

\* C16: a run is Done exactly when its n-th model output is the first ending
\* in a Final Answer line, after n - 1 Acts each followed by one tool
\* invocation that returned: n model calls and n - 1 tool invocations in
\* all.  Until then the run stays in the loop: after a tool has returned the
\* run is back at the model call, and the loop itself never refuses the next
\* model call.
C16_ExactlyNModelCalls ==
    \A r \in RunIds :
        /\ pc[r] = "Done" =>
              \E n \in 1..MaxIter :
                  /\ Len(log[r]) = 2 * n - 1
                  /\ log[r][2 * n - 1].op = "model"
                  /\ IsFinalText(log[r][2 * n - 1].output)
                  /\ \A k \in 1..(n - 1) : ActStepAt(r, 2 * k - 1)
                  /\ ModelCalls(r) = n
        /\ \A i \in 1..Len(log[r]) :
              (log[r][i].op = "model" /\ IsFinalText(log[r][i].output) /\ Handled(r, i)) =>
                  (i = Len(log[r]) /\ pc[r] = "Done")
        /\ (log[r] # <<>> /\ log[r][Len(log[r])].op = "tool" /\ log[r][Len(log[r])].returned) =>
              pc[r] = "prompt"
        /\ (pc[r] = "prompt" /\ ModelCalls(r) < MaxIter) => ENABLED ModelCall(r)

\* the observations of the tool invocations of a log that returned, in order
RECURSIVE Observations(_)
Observations(lg) ==
    IF lg = <<>> THEN <<>>
    ELSE Observations(SubSeq(lg, 1, Len(lg) - 1)) \o
            (IF lg[Len(lg)].op = "tool" /\ lg[Len(lg)].returned
             THEN lg[Len(lg)].output ELSE <<>>)

\* what run r holds
RunState(r) ==
    <<pc[r], query[r], template[r], pred[r], action[r], action_input[r],
      result[r], error[r], log[r]>>

\* run r is determined by its own query, the model outputs and the
\* observations it received itself, and the registry
OwnContextOnly(r) ==
    pc[r] # "idle" =>
        /\ template[r] = Template(QueryOfRun(r), NoText)
        /\ query[r] = QueryOfRun(r) \o Observations(log[r])
        /\ \A i \in 1..Len(log[r]) :
              /\ log[r][i].op = "model" => log[r][i].prompt = template[r]
              /\ log[r][i].op = "tool" =>
                    /\ i > 1
                    /\ log[r][i - 1].op = "model"
                    /\ log[r][i].pipeline = tool_map[ActionNamed(log[r][i - 1].output)]
                    /\ log[r][i].input =
                          get_action_and_input(log[r][i - 1].output).action_input
        /\ pc[r] = "Done" =>
              result[r] = get_action_and_input(log[r][Len(log[r])].output).action_input

\* C17: with two calls of run on one agent interleaved in any order, no step
\* changes the registry, every step is a step of one call and leaves what the
\* other call holds untouched, and what each call holds (its prompts, tool
\* invocations, context and result) is built from its own query and its own
\* observations only
C17_RunsDoNotInterfere ==
    /\ [](\A r \in RunIds : OwnContextOnly(r))
    /\ [][/\ tool_map' = tool_map
          /\ \E r \in RunIds : \A s \in RunIds \ {r} : RunState(s)' = RunState(s)]_vars

\* both calls have received an observation of their own, a different one each,
\* and the first has returned while the second is still in its loop
C17_Witness ==
    /\ pc[1] = "Done"
    /\ Observations(log[1]) = <<"4">>
    /\ pc[2] = "parse"
    /\ Observations(log[2]) = <<"9">>
    /\ query[2] = QueryOfRun(2) \o <<"9">>

(***************************************************************************)
(* Claims about ServiceContainer.generate_descriptions, under CatalogSpec. *)
(***************************************************************************)
\* a public method: neither the constructor nor underscore-prefixed
PublicMethod(name) == name \notin {"__init__", "_reset"}

DescriptorNames(ds) == {ds[i].name : i \in 1..Len(ds)}

\* C18: the catalog generate_descriptions returns has exactly one descriptor
\* for each public method of the class, none for the constructor or an
\* underscore-prefixed method, and no two descriptors of the same name
C18_OneDescriptorPerPublicMethod ==
    catalog.kind = "return" =>
        /\ DescriptorNames(catalog.descriptions) =
              {cls[i].name : i \in {j \in 1..Len(cls) : PublicMethod(cls[j].name)}}
        /\ \A i, j \in 1..Len(catalog.descriptions) :
              catalog.descriptions[i].name = catalog.descriptions[j].name => i = j

\* C19: when generate_description fails for some enumerated method, the call
\* of generate_descriptions ends with the error of a failing method and
\* returns no list; a list is returned only when every method was described,
\* and then it has a descriptor for each
C19_AllOrNothing ==
    LET failing == {i \in 1..Len(cls) : generate_description(cls[i]).kind = "raise"}
    IN  catalog # NoCatalog =>
            IF failing # {}
            THEN /\ catalog.kind = "raise"
                 /\ catalog \in {generate_description(cls[i]) : i \in failing}
            ELSE /\ catalog.kind = "return"
                 /\ Len(catalog.descriptions) = Len(cls)

\* two methods were described before the third failed, and the call has failed
C19_Witness ==
    /\ Len(cls) = 3
    /\ Len(descriptions) = 2
    /\ catalog.kind = "raise"

====
